---------------------------- MODULE Spec2Model ----------------------------
(***************************************************************************)
(* A model of the FTP client of src/src/lib.rs (simpleftp::FtpClient).     *)
(*                                                                         *)
(* Text is modelled at the level the code works on it: a line of the       *)
(* control stream is a sequence of characters, each character a one-atom   *)
(* string; "U+00E9" is a character whose UTF-8 encoding takes two bytes,   *)
(* so that the byte offsets the code slices at are not character offsets.  *)
(* The control stream is the sequence of lines the server has sent and the *)
(* client has not read yet; every line carries its own terminator.         *)
(***************************************************************************)
EXTENDS Integers, Sequences, FiniteSets, TLC

VARIABLES
    pc,       \* where the client is: "new", "idle", "noclient", or inside an operation
    op,       \* the operation being run, or run last
    stream,   \* control stream: lines received and not yet read by the client
    eof,      \* the server has closed the control connection behind `stream`
    sent,     \* command lines written to the control socket by the current operation
    log,      \* events of the current operation, in order
    codes,    \* reply codes the current operation got from parse_response, in order
    resp,     \* the outcome of the last parse_response call
    result,   \* what the last finished operation returned
    data,     \* the data connection of the current operation
    moved,    \* bytes the operation has copied between the data connection and the caller
    broken,   \* an I/O error struck the data phase of the current operation
    srv,      \* the server's replies to the commands of the current operation (codes)
    conforming, \* the server has sent one complete well-formed reply per command so far
    nops,     \* operations started on this client
    listen,   \* the address the server announced in a reply to PASV of this operation
    arg       \* the arguments of the current operation its later steps use

vars == <<pc, op, stream, eof, sent, log, codes, resp, result, data, moved, srv,
          conforming, nops, arg, listen, broken>>

-----------------------------------------------------------------------------
(* Bounds of the model *)

\* operations started on one client
MaxOps == 2
\* length, in characters, of the exhaustively enumerated first lines
MaxBody == 4
\* continuation lines following an enumerated first line
MaxCont == 2
\* numeric tokens in an enumerated PASV message
MaxTokens == 6
\* bytes the server sends on a data connection
MaxBytes == 1

-----------------------------------------------------------------------------
(* Reply codes, src/src/lib.rs:85-136 *)

SYSTEM == 211
DIRECTORY == 212
FILE == 213
COMMAND_OK == 200
BAD_COMMAND_SEQUENCE == 503
SERVICE_READY == 220
SERVICE_CLOSING == 221
ALREADY_OPEN == 125
CLOSING_DATA_CONNECTION == 226
PASSIVE_MODE == 227
LOGGED_IN == 230
NOT_LOGGED_IN == 530
NEED_PASSWORD == 331
FILE_OK == 150
FILE_ACTION_OK == 250
FILE_ACTION_PENDING == 350

-----------------------------------------------------------------------------
(* Characters and strings *)

DigitChars == {"0", "1", "2", "3", "4", "5", "6", "7", "8", "9"}

DigitVal(c) ==
    CASE c = "0" -> 0 [] c = "1" -> 1 [] c = "2" -> 2 [] c = "3" -> 3
      [] c = "4" -> 4 [] c = "5" -> 5 [] c = "6" -> 6 [] c = "7" -> 7
      [] c = "8" -> 8 [] c = "9" -> 9

DigitChar(d) ==
    CASE d = 0 -> "0" [] d = 1 -> "1" [] d = 2 -> "2" [] d = 3 -> "3"
      [] d = 4 -> "4" [] d = 5 -> "5" [] d = 6 -> "6" [] d = 7 -> "7"
      [] d = 8 -> "8" [] d = 9 -> "9"

\* characters whose UTF-8 encoding is longer than one byte, with their length
MultiByte == {"U+00E9", "U+00B2"}

ByteWidth(c) == IF c \in MultiByte THEN 2 ELSE 1

\* str::len: the length of a string in bytes
RECURSIVE ByteLen(_)
ByteLen(s) == IF s = <<>> THEN 0 ELSE ByteWidth(Head(s)) + ByteLen(Tail(s))

\* str::is_char_boundary(n)
IsCharBoundary(s, n) ==
    \E k \in 0..Len(s) : ByteLen(SubSeq(s, 1, k)) = n

\* the number of characters in the first n bytes of s (n a character boundary)
CharsIn(s, n) ==
    CHOOSE k \in 0..Len(s) : ByteLen(SubSeq(s, 1, k)) = n

\* &s[0..n] and &s[n..], which panic unless n is a character boundary
SliceTo(s, n) == SubSeq(s, 1, CharsIn(s, n))
SliceFrom(s, n) == SubSeq(s, CharsIn(s, n) + 1, Len(s))

\* str::starts_with
StartsWith(s, p) == Len(s) >= Len(p) /\ SubSeq(s, 1, Len(p)) = p

\* the decimal digits of a number, as Display formats it
RECURSIVE ToDecimal(_)
ToDecimal(n) ==
    IF n < 10 THEN <<DigitChar(n)>>
    ELSE Append(ToDecimal(n \div 10), DigitChar(n % 10))

RECURSIVE DigitsValue(_)
DigitsValue(s) ==
    IF s = <<>> THEN 0
    ELSE 10 * DigitsValue(SubSeq(s, 1, Len(s) - 1)) + DigitVal(s[Len(s)])

\* usize::from_str on a string too short to overflow (the code parses three
\* bytes): an optional '+', then one or more ASCII digits; -1 stands for Err
ParseUsize(s) ==
    LET body == IF s # <<>> /\ s[1] = "+" THEN Tail(s) ELSE s
    IN  IF body = <<>> \/ \E i \in 1..Len(body) : body[i] \notin DigitChars
        THEN -1
        ELSE DigitsValue(body)

-----------------------------------------------------------------------------
(* u32 arithmetic.  A u32 value v is the pair <<v \div 65536, v % 65536>>, *)
(* so that values up to 2^32 - 1 and their overflow can be computed.        *)

Half == 256 * 256

U32Of(n) == <<n \div Half, n % Half>>

U32Err == <<-1, -1>>

RECURSIVE ParseU32Digits(_, _)
ParseU32Digits(s, acc) ==
    IF s = <<>> THEN acc
    ELSE LET lo == acc[2] * 10 + DigitVal(Head(s))
             hi == acc[1] * 10 + (lo \div Half)
         IN  IF hi >= Half THEN U32Err
             ELSE ParseU32Digits(Tail(s), <<hi, lo % Half>>)

\* u32::from_str: an optional '+', then one or more ASCII digits, the value
\* at most 2^32 - 1; U32Err stands for Err
ParseU32(s) ==
    LET body == IF s # <<>> /\ s[1] = "+" THEN Tail(s) ELSE s
    IN  IF body = <<>> \/ \E i \in 1..Len(body) : body[i] \notin DigitChars
        THEN U32Err
        ELSE ParseU32Digits(body, <<0, 0>>)

\* upper * 256 + lower in u32: the wrapped value, and whether it overflowed
MulAdd256(upper, lower) ==
    LET lo1 == upper[2] * 256
        hi1 == upper[1] * 256 + (lo1 \div Half)
        lo2 == (lo1 % Half) + lower[2]
        hi2 == (hi1 % Half) + lower[1] + (lo2 \div Half)
    IN  [value |-> <<hi2 % Half, lo2 % Half>>,
         overflow |-> hi1 >= Half \/ hi2 >= Half]

\* Display of a u32
RECURSIVE U32ToDecimal(_)
U32ToDecimal(v) ==
    LET r == (v[1] % 10) * Half + v[2]
        q == <<v[1] \div 10, r \div 10>>
    IN  IF q = <<0, 0>> THEN <<DigitChar(r % 10)>>
        ELSE Append(U32ToDecimal(q), DigitChar(r % 10))

-----------------------------------------------------------------------------
(* std::io::Error and its conversion *)

\* the kinds of I/O error the model draws from: one that From turns into a
\* ConnectionError and one that falls to its last arm
IoErrorKinds == {"ConnectionReset", "BrokenPipe"}

\* impl From<std::io::Error> for FtpError
FromIoError(kind) ==
    CASE kind = "NotFound" -> "FileError"
      [] kind = "PermissionDenied" -> "FileError"
      [] kind \in {"ConnectionRefused", "ConnectionReset", "ConnectionAborted",
                   "NotConnected"} -> "ConnectionError"
      [] kind = "TimedOut" -> "ConnectionError"
      [] OTHER -> "FileError"

\* an input: the read_line call (1 = the first) that fails with an I/O error,
\* 0 for none
NoFail == [at |-> 0, kind |-> "none"]

-----------------------------------------------------------------------------
(* The response parser *)

\* the outcome of one parse_response call: kind is "Ok" (a Response with
\* code and message was returned), an FtpError variant, "Panic" or "Hang"
\* (the call never returns); rest is the stream left unread, lines the lines
\* read_line returned (none for the empty read at EOF), ioerr whether a read
\* failed
Outcome(kind, code, message, rest, lines, ioerr) ==
    [kind |-> kind, code |-> code, message |-> message, rest |-> rest,
     lines |-> lines, ioerr |-> ioerr]

NoResponse == Outcome("none", -1, <<>>, <<>>, <<>>, FALSE)

\* the first line a parse_response call read: empty at EOF
FirstLine(r) == IF r.lines = <<>> THEN <<>> ELSE r.lines[1]

\* a continuation line ends the multi-line reply: lib.rs:797
EndsReply(new_line, response) == StartsWith(new_line, SliceTo(response, 3))

\* the text of the lines read
RECURSIVE Concat(_)
Concat(lines) == IF lines = <<>> THEN <<>> ELSE Head(lines) \o Concat(Tail(lines))

\* the loop of lib.rs:797-803, entered with new_line empty; `lines` have been
\* read, the first of them the line the code was parsed from
RECURSIVE ReadContinuation(_, _, _, _)
ReadContinuation(lines, strm, fail, code) ==
    IF fail.at = Len(lines) + 1
    THEN Outcome(FromIoError(fail.kind), -1, <<>>, strm, lines, TRUE)
    ELSE IF strm = <<>>
    THEN \* read_line returns Ok(0) at EOF, or blocks: no line ever matches
         Outcome("Hang", -1, <<>>, strm, lines, FALSE)
    ELSE LET new_line == Head(strm)
             grown == Append(lines, new_line)
         IN  IF EndsReply(new_line, lines[1])
             THEN Outcome("Ok", code, SliceFrom(Concat(grown), 3), Tail(strm),
                          grown, FALSE)
             ELSE ReadContinuation(grown, Tail(strm), fail, code)

\* the reply is a multi-line one: lib.rs:795
IsMultiline(response) == \E i \in 1..Len(SliceTo(response, 4)) :
                             SliceTo(response, 4)[i] = "-"

\* a length test that asks for one byte more
TooShortSix(response) == ByteLen(response) < 6

\* the length test of lib.rs:784
TooShort(response) == ByteLen(response) < 5

\* FtpClient::parse_response on the control stream strm
parse_response(strm, atEof, fail) ==
    IF fail.at = 1
    THEN Outcome("ResponseError", -1, <<>>, strm, <<>>, TRUE)
    ELSE IF strm = <<>> /\ ~atEof
    THEN Outcome("Hang", -1, <<>>, strm, <<>>, FALSE)
    ELSE LET response == IF strm = <<>> THEN <<>> ELSE Head(strm)
             rest == IF strm = <<>> THEN <<>> ELSE Tail(strm)
             lines == IF strm = <<>> THEN <<>> ELSE <<Head(strm)>>
         IN  IF TooShort(response)
             THEN Outcome("ResponseError", -1, <<>>, rest, lines, FALSE)
             ELSE IF ~IsCharBoundary(response, 3)
             THEN Outcome("Panic", -1, <<>>, rest, lines, FALSE)
             ELSE LET code == ParseUsize(SliceTo(response, 3))
                  IN  IF code = -1
                      THEN Outcome("ResponseError", -1, <<>>, rest, lines, FALSE)
                      ELSE IF ~IsCharBoundary(response, 4)
                      THEN Outcome("Panic", -1, <<>>, rest, lines, FALSE)
                      ELSE IF IsMultiline(response)
                      THEN ReadContinuation(lines, rest, fail, code)
                      ELSE Outcome("Ok", code, SliceFrom(response, 3), rest,
                                   lines, FALSE)

-----------------------------------------------------------------------------
(* The passive address decoder *)

\* char::is_numeric: the decimal digits, and numeric characters beyond ASCII
\* such as U+00B2 (superscript two)
IsNumeric(c) == c \in DigitChars \cup {"U+00B2"}

\* the characters extract_pasv_address keeps: lib.rs:814
KeptChar(c) == c = "," \/ IsNumeric(c)

\* str::split on a character: the pieces between the separators, empty ones
\* included
RECURSIVE Split(_, _)
Split(s, sep) ==
    IF \A i \in 1..Len(s) : s[i] # sep THEN <<s>>
    ELSE LET i == CHOOSE j \in 1..Len(s) :
                      s[j] = sep /\ \A k \in 1..(j - 1) : s[k] # sep
         IN  <<SubSeq(s, 1, i - 1)>> \o Split(SubSeq(s, i + 1, Len(s)), sep)

\* the tokens of lib.rs:815 that parse as u32, parsed: lib.rs:816
RECURSIVE ParsedNumbers(_)
ParsedNumbers(tokens) ==
    IF tokens = <<>> THEN <<>>
    ELSE LET v == ParseU32(Head(tokens))
         IN  (IF v = U32Err THEN <<>> ELSE <<v>>) \o ParsedNumbers(Tail(tokens))

\* the numbers extract_pasv_address finds in a message: lib.rs:814-816
Numbers(response) ==
    ParsedNumbers(Split(SelectSeq(response, KeptChar), ","))

\* the port with its two bytes exchanged, lower * 256 + upper: what the round
\* trip of an announced address rules out
FullPortSwapped(numbers) == MulAdd256(numbers[6], numbers[5])

\* the port of lib.rs:824-827
FullPort(numbers) == MulAdd256(numbers[5], numbers[6])

\* the text "{}.{}.{}.{}:{}" of lib.rs:828-831
FormatAddress(numbers, full_port) ==
    U32ToDecimal(numbers[1]) \o <<".">> \o U32ToDecimal(numbers[2]) \o <<".">>
      \o U32ToDecimal(numbers[3]) \o <<".">> \o U32ToDecimal(numbers[4])
      \o <<":">> \o U32ToDecimal(full_port)

NoAddress == <<>>

\* FtpClient::extract_pasv_address; overflow_checks is the build's setting:
\* with it an overflowing multiplication or addition panics, without it wraps
extract_pasv_address(response, overflow_checks) ==
    LET numbers == Numbers(response)
    IN  IF Len(numbers) < 6
        THEN [kind |-> "ResponseError", address |-> NoAddress, numbers |-> numbers]
        ELSE LET port == FullPort(numbers)
             IN  IF port.overflow /\ overflow_checks
                 THEN [kind |-> "Panic", address |-> NoAddress,
                       numbers |-> numbers]
                 ELSE [kind |-> "Ok",
                       address |-> FormatAddress(numbers, port.value),
                       numbers |-> numbers]

\* the text is an IPv4 socket address TcpStream::connect can dial: four octets
\* and a 16-bit port
Dialable(numbers, full_port) ==
    /\ \A i \in 1..4 : numbers[i][1] = 0 /\ numbers[i][2] <= 255
    /\ full_port[1] = 0

-----------------------------------------------------------------------------
(* The server: what it may send on the control connection *)

CRLF == <<"\r", "\n">>

\* a reply line: the code, the separator, the text, the terminator
Line(code, sep, text) == ToDecimal(code) \o <<sep>> \o text \o CRLF

\* what the server sends in answer to one command: its lines, the code it
\* answers with, whether this is one complete well-formed reply, whether it
\* closes the connection, and the address <<a, b, c, d, p1, p2>> it announces
\* in the form "Entering Passive Mode (a,b,c,d,p1,p2)." if it does
Reply(code, lines, wf, close) ==
    [code |-> code, lines |-> lines, wf |-> wf, close |-> close,
     passive |-> <<>>]

Single(code) == Reply(code, <<Line(code, " ", <<"o", "k">>)>>, TRUE, FALSE)

\* "<code>-line one", "<code>-line two", "<code> End"
MultiCoded(code) ==
    Reply(code, <<Line(code, "-", <<"l", "i", "n", "e", " ", "o", "n", "e">>),
                  Line(code, "-", <<"l", "i", "n", "e", " ", "t", "w", "o">>),
                  Line(code, " ", <<"E", "n", "d">>)>>, TRUE, FALSE)

\* "<code>-line one", " line two", "<code> End"
MultiPlain(code) ==
    Reply(code, <<Line(code, "-", <<"l", "i", "n", "e", " ", "o", "n", "e">>),
                  <<" ", "l", "i", "n", "e", " ", "t", "w", "o">> \o CRLF,
                  Line(code, " ", <<"E", "n", "d">>)>>, TRUE, FALSE)

\* "Entering Passive Mode (a,b,c,d,p1,p2)."
PasvText(a, b, c, d, p1, p2) ==
    <<"E", "n", "t", "e", "r", "i", "n", "g", " ", "P", "a", "s", "s", "i", "v",
      "e", " ", "M", "o", "d", "e", " ", "(">>
      \o ToDecimal(a) \o <<",">> \o ToDecimal(b) \o <<",">> \o ToDecimal(c)
      \o <<",">> \o ToDecimal(d) \o <<",">> \o ToDecimal(p1) \o <<",">>
      \o ToDecimal(p2) \o <<")", ".">>

PasvReply(code, a, b, c, d, p1, p2) ==
    [Reply(code, <<Line(code, " ", PasvText(a, b, c, d, p1, p2))>>, TRUE, FALSE)
       EXCEPT !.passive = <<a, b, c, d, p1, p2>>]

\* the server closes the control connection without answering
Closed == Reply(-1, <<>>, FALSE, TRUE)

\* a line that is no reply
Garbage == Reply(-1, <<<<"o", "k">> \o CRLF>>, FALSE, FALSE)

ReplyCodes == {ALREADY_OPEN, FILE_OK, COMMAND_OK, SERVICE_READY,
               SERVICE_CLOSING, CLOSING_DATA_CONNECTION, PASSIVE_MODE, LOGGED_IN,
               FILE_ACTION_OK, NEED_PASSWORD, FILE_ACTION_PENDING,
               BAD_COMMAND_SEQUENCE, NOT_LOGGED_IN}

ServerReplies ==
    {Single(c) : c \in ReplyCodes}
      \cup {PasvReply(PASSIVE_MODE, 10, 0, 0, 1, 4, 1)}
      \cup {MultiCoded(SYSTEM), MultiPlain(SYSTEM), Closed, Garbage}

\* once the server has closed the connection nothing more arrives
RepliesNow(replies) == IF eof THEN {Closed} ELSE replies

\* arguments of the operations
Names == {<<"f">>}

\* arguments a caller may also pass: the empty string, and a name that holds
\* a line end
OddNames == {<<>>, <<"f", "\r", "\n", "Q", "U", "I", "T">>}

NoArg == [text |-> <<>>, more |-> <<>>, flag |-> FALSE]
Arg(text, flag) == [text |-> text, more |-> <<>>, flag |-> flag]
Arg2(text, more) == [text |-> text, more |-> more, flag |-> FALSE]

NoData == [state |-> "none", address |-> NoAddress]

WriteFails == {"none"} \cup IoErrorKinds

\* nothing arrives from the server: an I/O error strikes first
Lost == Reply(-1, <<>>, FALSE, FALSE)

\* what may happen in one read of a reply: the server's answer arrives and is
\* read, or the first read_line fails before anything arrives, or a later
\* read_line fails inside an answer of several lines
Reads(replies) ==
    [reply : replies, r : {NoFail}]
      \cup [reply : {Lost}, r : [at : {1}, kind : IoErrorKinds]]
      \cup [reply : {x \in replies : Len(x.lines) > 1},
            r : [at : {2}, kind : IoErrorKinds]]

\* what may happen in one write_cmd call: the write fails, or the command is
\* written and a reply is read
Exchanges(replies) ==
    [reply : {Lost}, r : {NoFail}, w : IoErrorKinds]
      \cup {[reply |-> x.reply, r |-> x.r, w |-> "none"] : x \in Reads(replies)}

-----------------------------------------------------------------------------
(* The command channel *)

\* self.parse_response() against what the server has sent: the reply read is
\* taken off the stream
read_reply(reply, rfail, codes0, srv0) ==
    LET r == parse_response(stream \o reply.lines, eof \/ reply.close, rfail)
    IN  /\ resp' = [r EXCEPT !.rest = <<>>]
        /\ stream' = r.rest
        /\ eof' = (eof \/ reply.close)
        /\ codes' = IF r.kind = "Ok" THEN Append(codes0, r.code) ELSE codes0
        /\ srv' = Append(srv0, reply.code)
        /\ listen' = IF reply.passive # <<>> THEN reply.passive ELSE listen
        /\ conforming' = (conforming /\ reply.wf /\ ~r.ioerr)

\* the line write_cmd puts on the wire: lib.rs:231
WireLine(command) == command \o CRLF

\* FtpClient::write_cmd: the command is written, the server answers it, one
\* reply is parsed; a failed write returns its error and reads nothing.
\* sent0, log0, codes0, srv0 are the operation's records so far
write_cmd(command, reply, wfail, rfail, sent0, log0, codes0, srv0) ==
    IF wfail # "none"
    THEN /\ resp' = Outcome(FromIoError(wfail), -1, <<>>, <<>>, <<>>, TRUE)
         /\ sent' = sent0
         /\ log' = Append(log0, "write failed")
         /\ codes' = codes0
         /\ srv' = srv0
         /\ conforming' = FALSE
         /\ UNCHANGED <<stream, eof, listen>>
    ELSE /\ sent' = Append(sent0, WireLine(command))
         /\ log' = log0 \o <<command[1], "read">>
         /\ read_reply(reply, rfail, codes0, srv0)

-----------------------------------------------------------------------------
(* Operations *)

\* where a call that ended with `kind` leaves the client
After(kind) ==
    CASE kind = "Panic" -> "panicked"
      [] kind = "Hang" -> "hung"
      [] OTHER -> "idle"

\* a data connection that outlives the operation that opened it
DroppedLate(d) == d

\* a data connection the operation holds is closed when the operation returns
Dropped(d) ==
    IF d.state \in {"open", "shut"}
    THEN [state |-> "closed", address |-> d.address]
    ELSE d

\* the operation returns `kind` ("Ok" or an error)
Return(kind) ==
    /\ pc' = After(kind)
    /\ result' = kind
    /\ data' = Dropped(data)

\* the operation goes on to its next step
Goto(step) ==
    /\ pc' = step
    /\ result' = "running"
    /\ UNCHANGED data

\* the methods of FtpClient the model calls
Methods == {"login", "noop", "delete", "status", "logout", "rename", "pasv",
            "get", "put", "put_unique", "append", "list", "name_list"}

\* the arguments a method is called with
CallArgs(name) ==
    CASE name \in {"login", "rename"} ->
             {Arg2(x, y) : x \in Names, y \in Names}
      [] name \in {"noop", "logout", "pasv", "put_unique"} -> {NoArg}
      [] name = "delete" -> {Arg(x, FALSE) : x \in Names \cup OddNames}
      [] OTHER -> {Arg(x, FALSE) : x \in Names}

\* the caller takes what the operation returned: the client is ready for
\* its next call, as between two statements of main
take_result ==
    /\ pc = "idle"
    /\ pc' = "ready"
    /\ op' = "none"
    /\ arg' = NoArg
    /\ sent' = <<>>
    /\ log' = <<>>
    /\ codes' = <<>>
    /\ srv' = <<>>
    /\ resp' = NoResponse
    /\ result' = "none"
    /\ data' = NoData
    /\ moved' = 0
    /\ broken' = FALSE
    /\ listen' = <<>>
    /\ UNCHANGED <<stream, eof, conforming, nops>>

\* the user of the client calls one of its methods, as main does
call ==
    /\ pc = "ready"
    /\ nops < MaxOps
    /\ \E name \in Methods :
          \E a \in CallArgs(name) :
             /\ op' = name
             /\ arg' = a
             /\ pc' = name
    /\ nops' = nops + 1
    /\ result' = "running"
    /\ UNCHANGED <<stream, eof, sent, log, codes, resp, data, moved, broken, srv,
                   conforming, listen>>

\* a step that is one write_cmd call: the command is written and the reply
\* classified: `then` is the step its code leads to, or "return", and `value`
\* is then what the operation returns
Exchange(command, replies, then, value) ==
    /\ \E x \in Exchanges(RepliesNow(replies)) :
          /\ write_cmd(command, x.reply, x.w, x.r, sent, log, codes, srv)
          /\ IF resp'.kind # "Ok" THEN Return(resp'.kind)
             ELSE IF then = "return" THEN Return(value)
             ELSE Goto(then)
    /\ UNCHANGED <<op, arg, moved, broken, nops>>

ThenReturn(code) == "return"

\* a greeting test that also lets "logged in" through
GreetingResultLenient(code) ==
    IF code # SERVICE_READY /\ code # LOGGED_IN THEN "ConnectionError" ELSE "Ok"

\* what connect returns for the greeting: lib.rs:174-178
GreetingResult(code) ==
    IF code # SERVICE_READY THEN "ConnectionError" ELSE "Ok"

\* FtpClient::connect
connect ==
    /\ pc = "new"
    /\ \E conn \in WriteFails, x \in Reads(ServerReplies) :
          IF conn # "none"
          THEN /\ result' = FromIoError(conn)
               /\ pc' = "noclient"
               /\ log' = <<"connect failed">>
               /\ UNCHANGED <<stream, eof, codes, resp, srv, conforming, listen>>
          ELSE /\ log' = <<"connect", "read">>
               /\ read_reply(x.reply, x.r, <<>>, <<>>)
               /\ IF resp'.kind # "Ok" THEN result' = resp'.kind
                  ELSE result' = GreetingResult(resp'.code)
               /\ pc' = IF result' = "Ok" THEN "idle"
                        ELSE IF result' \in {"Panic", "Hang"} THEN After(result')
                        ELSE "noclient"
    /\ op' = "connect"
    /\ UNCHANGED <<sent, data, moved, broken, nops, arg>>

\* a login that sends USER again when the reply to it is unexpected
AfterUSERAgain(code) ==
    IF code # NEED_PASSWORD /\ code # LOGGED_IN THEN "login" ELSE "login_PASS"

\* a test of the reply to USER that also lets "command okay" through
AfterUSERLenient(code) ==
    IF code # NEED_PASSWORD /\ code # LOGGED_IN /\ code # COMMAND_OK
    THEN "return"
    ELSE "login_PASS"

\* the step after the reply to USER: lib.rs:204-212
AfterUSER(code) ==
    IF code # NEED_PASSWORD /\ code # LOGGED_IN THEN "return" ELSE "login_PASS"

LoginError(code) == "LoginError"

\* FtpClient::login, to the reply to USER
login ==
    /\ pc = "login"
    /\ Exchange(<<"USER", " ">> \o arg.text, ServerReplies,
                AfterUSER(resp'.code), LoginError(resp'.code))

\* a test of the reply to PASS that also lets "command okay" through
PassResultLenient(code) ==
    IF code # LOGGED_IN /\ code # COMMAND_OK THEN "LoginError" ELSE "Ok"

\* what login returns for the reply to PASS: lib.rs:213-220
PassResult(code) == IF code # LOGGED_IN THEN "LoginError" ELSE "Ok"

\* FtpClient::login, from "send password" on
login_PASS ==
    /\ pc = "login_PASS"
    /\ Exchange(<<"PASS", " ">> \o arg.more, ServerReplies,
                ThenReturn(resp'.code), PassResult(resp'.code))

\* a noop that takes every reply but "command okay" for success
NoopResultInverted(code) == IF code # COMMAND_OK THEN "Ok" ELSE "CommandError"

\* what noop returns for the reply to NOOP: lib.rs:413-416
NoopResult(code) == IF code = COMMAND_OK THEN "Ok" ELSE "CommandError"

\* FtpClient::noop
noop ==
    /\ pc = "noop"
    /\ Exchange(<<"NOOP">>, ServerReplies,
                ThenReturn(resp'.code), NoopResult(resp'.code))

DeleteResult(code) == IF code # FILE_ACTION_OK THEN "CommandError" ELSE "Ok"

\* FtpClient::delete
delete ==
    /\ pc = "delete"
    /\ Exchange(<<"DELE", " ">> \o arg.text, ServerReplies,
                ThenReturn(resp'.code), DeleteResult(resp'.code))

StatusResult(code) ==
    IF code \in {SYSTEM, FILE, DIRECTORY} THEN "Ok" ELSE "CommandError"

\* FtpClient::status
status ==
    /\ pc = "status"
    /\ Exchange(<<"STAT", " ">> \o arg.text, ServerReplies,
                ThenReturn(resp'.code), StatusResult(resp'.code))

LogoutResult(code) == IF code = SERVICE_CLOSING THEN "Ok" ELSE "FileError"

\* FtpClient::logout
logout ==
    /\ pc = "logout"
    /\ Exchange(<<"QUIT">>, ServerReplies,
                ThenReturn(resp'.code), LogoutResult(resp'.code))

\* a test of the reply to RNFR that also lets "file action okay" through
AfterRNFRLenient(code) ==
    IF code # FILE_ACTION_PENDING /\ code # FILE_ACTION_OK THEN "return"
    ELSE "rename_RNTO"

\* the step after the reply to RNFR: lib.rs:444-451
AfterRNFR(code) ==
    IF code # FILE_ACTION_PENDING THEN "return" ELSE "rename_RNTO"

CommandError(code) == "CommandError"

\* FtpClient::rename, to the reply to RNFR
rename ==
    /\ pc = "rename"
    /\ Exchange(<<"RNFR", " ">> \o arg.text, ServerReplies,
                AfterRNFR(resp'.code), CommandError(resp'.code))

RntoResult(code) == IF code # FILE_ACTION_OK THEN "CommandError" ELSE "Ok"

\* FtpClient::rename, from RNTO on
rename_RNTO ==
    /\ pc = "rename_RNTO"
    /\ Exchange(<<"RNTO", " ">> \o arg.more, ServerReplies,
                ThenReturn(resp'.code), RntoResult(resp'.code))

-----------------------------------------------------------------------------
(* Transfers *)

\* a caller that goes on to its transfer command when PASV is refused
AfterPASVIgnored(code) ==
    IF code # PASSIVE_MODE /\ code # ALREADY_OPEN THEN "get_RETR"
    ELSE "pasv_connect"

\* the step after the reply to PASV: lib.rs:493-499
AfterPASV(code) ==
    IF code # PASSIVE_MODE /\ code # ALREADY_OPEN THEN "return"
    ELSE "pasv_connect"

ResponseError(code) == "ResponseError"

\* the methods that call pasv() first thing, and pasv itself
PasvCallers == {"pasv", "get", "put", "put_unique", "append", "list",
                "name_list"}

\* FtpClient::pasv, to the reply to PASV: lib.rs:491-498
pasv_PASV(replies) ==
    /\ pc = "pasv_PASV"
    /\ Exchange(<<"PASV">>, replies,
                AfterPASV(resp'.code), ResponseError(resp'.code))

\* a get that goes from the data connection straight to the copy, without
\* RETR
AfterPasvNoRETR(name) ==
    CASE name = "get" -> "get_copy"
      [] name \in {"put", "put_unique", "append"} -> "store_cmd_write"
      [] name \in {"list", "name_list"} -> "list_cmd_write"
      [] OTHER -> "idle"

\* the step of the calling operation that follows a successful pasv()
AfterPasv(name) ==
    CASE name = "get" -> "get_RETR"
      [] name \in {"put", "put_unique", "append"} -> "store_cmd_write"
      [] name \in {"list", "name_list"} -> "list_cmd_write"
      [] OTHER -> "idle"

\* FtpClient::pasv, from the decoding of the address on: lib.rs:499-505
pasv_connect ==
    /\ pc = "pasv_connect"
    /\ \E overflow_checks \in BOOLEAN, conn \in WriteFails :
          LET a == extract_pasv_address(resp.message, overflow_checks)
          IN  IF a.kind # "Ok"
              THEN /\ pc' = After(a.kind)
                   /\ result' = a.kind
                   /\ UNCHANGED <<data, log>>
              ELSE IF ~Dialable(a.numbers, FullPort(a.numbers).value)
              THEN /\ pc' = "idle"
                   /\ result' = FromIoError("InvalidInput")
                   /\ log' = Append(log, "connect failed")
                   /\ UNCHANGED data
              ELSE IF conn # "none"
              THEN /\ pc' = "idle"
                   /\ result' = FromIoError(conn)
                   /\ log' = Append(log, "connect failed")
                   /\ UNCHANGED data
              ELSE /\ data' = [state |-> "open", address |-> a.address]
                   /\ log' = Append(log, "open")
                   /\ pc' = AfterPasv(op)
                   /\ result' = IF op = "pasv" THEN "Ok" ELSE "running"
    /\ UNCHANGED <<op, arg, stream, eof, sent, codes, resp, moved, broken, srv,
                   conforming, nops, listen>>

\* a method's call of self.pasv(), or of the method that calls it, with the
\* parameters `a` it passes on
CallsPasv(name, a) ==
    /\ pc = name
    /\ pc' = "pasv_PASV"
    /\ arg' = a
    /\ UNCHANGED <<op, stream, eof, sent, log, codes, resp, result, data, moved, broken,
                   srv, conforming, nops, listen>>

\* FtpClient::pasv called by the user
pasv == CallsPasv("pasv", arg)

\* FtpClient::get, its call of pasv: lib.rs:272
get == CallsPasv("get", arg)

\* a test of the reply to RETR that also lets "command okay" through
AfterRETRLenient(code) ==
    IF code # FILE_OK /\ code # ALREADY_OPEN /\ code # COMMAND_OK THEN "return"
    ELSE "get_copy"

\* the step after the reply to RETR: lib.rs:274-279
AfterRETR(code) ==
    IF code # FILE_OK /\ code # ALREADY_OPEN THEN "return" ELSE "get_copy"

\* FtpClient::get, RETR and its reply: lib.rs:273-278
get_RETR ==
    /\ pc = "get_RETR"
    /\ Exchange(<<"RETR", " ">> \o arg.text, ServerReplies,
                AfterRETR(resp'.code), CommandError(resp'.code))

\* std::io::copy between the data connection and the caller: n bytes cross,
\* then the source is at its end, or an I/O error strikes
Copy(next) ==
    /\ \E n \in 0..MaxBytes, fail \in WriteFails :
          /\ moved' = n
          /\ broken' = (fail # "none")
          /\ log' = Append(log, "copy")
          /\ IF fail # "none" THEN Return(FromIoError(fail)) ELSE Goto(next)
    /\ UNCHANGED <<op, arg, stream, eof, sent, codes, resp, srv, conforming, nops,
                   listen>>

\* FtpClient::get, the copy of lib.rs:279
get_copy == pc = "get_copy" /\ Copy("get_close")

\* a test of the closing reply that also lets "file action okay" through
ClosingResultLenient(code) ==
    IF code = CLOSING_DATA_CONNECTION \/ code = FILE_ACTION_OK THEN "Ok"
    ELSE "ConnectionError"

\* the result for the reply that closes a transfer: lib.rs:282-285
ClosingResult(code) ==
    IF code = CLOSING_DATA_CONNECTION THEN "Ok" ELSE "ConnectionError"

\* the last step of a transfer: one more reply is read from the control
\* connection and classified
Closing ==
    /\ \E x \in Reads(RepliesNow(ServerReplies)) :
          /\ read_reply(x.reply, x.r, codes, srv)
          /\ log' = Append(log, "read")
          /\ IF resp'.kind # "Ok" THEN Return(resp'.kind)
             ELSE Return(ClosingResult(resp'.code))
    /\ UNCHANGED <<op, arg, sent, moved, broken, nops>>

\* FtpClient::get, the closing reply: lib.rs:282-285
get_close == pc = "get_close" /\ Closing

\* FtpClient::put
put == CallsPasv("put", Arg(arg.text, FALSE))

\* FtpClient::put_unique
put_unique == CallsPasv("put_unique", Arg(<<>>, TRUE))

\* FtpClient::append
append == CallsPasv("append", Arg(arg.text, FALSE))

\* the command store_cmd writes: lib.rs:383-387
StoreCommand(file, unique) ==
    IF unique THEN <<"STOU", " ">> \o file ELSE <<"STOR", " ">> \o file

\* a test of the reply to the store command that also lets "data connection
\* already open" through
AfterSTORLenient(code) ==
    IF code # FILE_OK /\ code # ALREADY_OPEN THEN "return" ELSE "store_cmd_copy"

\* the step after the reply to the store command: lib.rs:389-395
AfterSTOR(code) == IF code # FILE_OK THEN "return" ELSE "store_cmd_copy"

\* FtpClient::store_cmd, the store command and its reply: lib.rs:383-391
store_cmd_write ==
    /\ pc = "store_cmd_write"
    /\ Exchange(StoreCommand(arg.text, arg.flag), ServerReplies,
                AfterSTOR(resp'.code), CommandError(resp'.code))

\* a store that goes from the copy straight to the closing reply, the data
\* connection left open
store_cmd_copy_no_shutdown == pc = "store_cmd_copy" /\ Copy("store_cmd_close")

\* FtpClient::store_cmd, the copy of lib.rs:395
store_cmd_copy == pc = "store_cmd_copy" /\ Copy("store_cmd_shutdown")

\* FtpClient::store_cmd, the shutdown of lib.rs:401
store_cmd_shutdown ==
    /\ pc = "store_cmd_shutdown"
    /\ \E fail \in WriteFails :
          /\ log' = Append(log, "shutdown")
          /\ IF fail # "none"
             THEN Return(FromIoError(fail))
             ELSE /\ pc' = "store_cmd_close"
                  /\ result' = "running"
                  /\ data' = [state |-> "shut", address |-> data.address]
    /\ UNCHANGED <<op, arg, stream, eof, sent, codes, resp, moved, broken, srv,
                   conforming, nops, listen>>

\* FtpClient::store_cmd, the closing reply: lib.rs:402-405
store_cmd_close == pc = "store_cmd_close" /\ Closing

\* FtpClient::list
list == CallsPasv("list", Arg(arg.text, FALSE))

\* FtpClient::name_list
name_list == CallsPasv("name_list", Arg(arg.text, TRUE))

\* the command list_cmd writes: lib.rs:539-543
ListCommand(dir, named) ==
    IF named THEN <<"NLST", " ">> \o dir ELSE <<"LIST", " ">> \o dir

\* the step after the reply to the list command: lib.rs:544-548
AfterLIST(code) ==
    IF code # COMMAND_OK /\ code # ALREADY_OPEN /\ code # FILE_OK
    THEN "return"
    ELSE "list_cmd_lines"

\* FtpClient::list_cmd, the list command and its reply: lib.rs:539-547
list_cmd_write ==
    /\ pc = "list_cmd_write"
    /\ Exchange(ListCommand(arg.text, arg.flag), ServerReplies,
                AfterLIST(resp'.code), CommandError(resp'.code))

\* FtpClient::list_cmd, the lines read from the data connection, a line that
\* fails to read being left out: lib.rs:548-553
list_cmd_lines ==
    /\ pc = "list_cmd_lines"
    /\ \E n \in 0..MaxBytes, fail \in WriteFails :
          /\ moved' = n
          /\ broken' = (fail # "none")
          /\ log' = Append(log, "copy")
          /\ Goto("list_cmd_close")
    /\ UNCHANGED <<op, arg, stream, eof, sent, codes, resp, srv, conforming, nops,
                   listen>>

\* FtpClient::list_cmd, the closing reply: lib.rs:557-560
list_cmd_close == pc = "list_cmd_close" /\ Closing

-----------------------------------------------------------------------------
(* The client against a server *)

Init ==
    /\ pc = "new"
    /\ op = "none"
    /\ stream = <<>>
    /\ eof = FALSE
    /\ sent = <<>>
    /\ log = <<>>
    /\ codes = <<>>
    /\ resp = NoResponse
    /\ result = "none"
    /\ data = NoData
    /\ moved = 0
    /\ broken = FALSE
    /\ srv = <<>>
    /\ conforming = TRUE
    /\ nops = 0
    /\ arg = NoArg
    /\ listen = <<>>

Next ==
    \/ connect
    \/ take_result \/ call
    \/ login \/ login_PASS
    \/ noop \/ delete \/ status \/ logout
    \/ rename \/ rename_RNTO
    \/ pasv \/ pasv_PASV(ServerReplies) \/ pasv_connect
    \/ get \/ get_RETR \/ get_copy \/ get_close
    \/ put \/ put_unique \/ append
    \/ store_cmd_write \/ store_cmd_copy \/ store_cmd_shutdown \/ store_cmd_close
    \/ list \/ name_list \/ list_cmd_write \/ list_cmd_lines \/ list_cmd_close

Spec == Init /\ [][Next]_vars

-----------------------------------------------------------------------------
(* The response parser alone, on enumerated control streams *)

\* the characters first lines are enumerated over
BodyChars == {"0", "2", "-", " ", "+", "U+00E9"}

\* the ends of a first line: cut by EOF, LF, CRLF
Terminators == {<<>>, <<"\n">>, CRLF}

\* every line of at most MaxBody characters over BodyChars, with each end; a
\* line that EOF cuts is the last of its stream
FirstLines ==
    {b \o t : b \in UNION {[1..n -> BodyChars] : n \in 0..MaxBody},
              t \in Terminators} \ {<<>>}

LineOne == <<"l", "i", "n", "e", " ", "o", "n", "e">>
LineTwo == <<"l", "i", "n", "e", " ", "t", "w", "o">>

\* first lines that lines follow
OpeningLines == {Line(SYSTEM, "-", LineOne), Line(SYSTEM, " ", LineOne)}

\* the lines that follow them
FollowingLines ==
    {Line(SYSTEM, "-", LineTwo), Line(SYSTEM, " ", <<"E", "n", "d">>),
     <<" ">> \o LineTwo \o CRLF, Line(DIRECTORY, " ", <<"E", "n", "d">>)}

\* a line the connection's end cuts before its terminator
Unterminated(line) == SubSeq(line, 1, Len(line) - Len(CRLF))

\* reply lines that EOF cuts: "220 ok", "211-line one", "211 line one"
CutLines ==
    {Unterminated(f) :
        f \in OpeningLines \cup {Line(SERVICE_READY, " ", <<"o", "k">>)}}

ParseStreams ==
    {<<>>} \cup {<<f>> : f \in FirstLines \cup CutLines}
      \cup {<<f>> \o c : f \in OpeningLines,
                         c \in UNION {[1..n -> FollowingLines] : n \in 0..MaxCont}}

\* the control stream holds all the server sends before it closes the
\* connection, and parse_response is about to be called
InitParse ==
    /\ pc = "parse_response"
    /\ op = "parse_response"
    /\ stream \in ParseStreams
    /\ eof = TRUE
    /\ sent = <<>>
    /\ log = <<>>
    /\ codes = <<>>
    /\ resp = NoResponse
    /\ result = "running"
    /\ data = NoData
    /\ moved = 0
    /\ broken = FALSE
    /\ srv = <<>>
    /\ conforming = TRUE
    /\ nops = 0
    /\ arg = NoArg
    /\ listen = <<>>

\* one call of FtpClient::parse_response
parse_response_call ==
    /\ pc = "parse_response"
    /\ LET r == parse_response(stream, eof, NoFail)
       IN  /\ resp' = [r EXCEPT !.rest = <<>>]
           /\ stream' = r.rest
           /\ codes' = IF r.kind = "Ok" THEN <<r.code>> ELSE <<>>
           /\ result' = r.kind
    /\ pc' = "returned"
    /\ log' = <<"read">>
    /\ UNCHANGED <<op, eof, sent, data, moved, broken, srv, conforming, nops, arg, listen>>

NextParse == parse_response_call

SpecParse == InitParse /\ [][NextParse]_vars

-----------------------------------------------------------------------------
(* pasv() alone, against enumerated replies to PASV *)

\* the values a, b, c, d, p1, p2 are enumerated over
Octets == {0, 10, 255}

\* the numeric tokens and the separators messages are enumerated over
TokenSamples == {<<"7">>, <<"1", "0">>}
SeparatorSamples == {<<",">>, <<" ">>}

\* the tokens joined, seps[i] standing before the token i + 1
RECURSIVE Join(_, _)
Join(tokens, seps) ==
    IF tokens = <<>> THEN <<>>
    ELSE IF Len(tokens) = 1 THEN tokens[1]
    ELSE tokens[1] \o seps[1] \o Join(Tail(tokens), Tail(seps))

\* messages of up to MaxTokens numeric tokens
TokenMessages ==
    {<<>>} \cup
    UNION {{Join(t, sp) : t \in [1..n -> TokenSamples],
                          sp \in [1..(n - 1) -> SeparatorSamples]} :
           n \in 1..MaxTokens}

\* messages a server may send that are off the strict form: a number after
\* the address ("Entering Passive Mode (10,0,0,1,4,1). 2"), a fifth number
\* over 255, a fifth number of 2^24
OddMessages ==
    {PasvText(10, 0, 0, 1, 4, 1) \o <<" ", "2">>,
     PasvText(10, 0, 0, 1, 256, 0),
     PasvText(10, 0, 0, 1, 256 * Half, 0)}

PasvReplies ==
    {PasvReply(PASSIVE_MODE, a, b, c, d, p1, p2) :
        a \in Octets, b \in Octets, c \in Octets, d \in Octets,
        p1 \in Octets, p2 \in Octets}
      \cup {Reply(PASSIVE_MODE, <<Line(PASSIVE_MODE, " ", m)>>, TRUE, FALSE) :
               m \in TokenMessages \cup OddMessages}

\* a connected client on which pasv() has just been called
InitPasv ==
    /\ pc = "pasv"
    /\ op = "pasv"
    /\ stream = <<>>
    /\ eof = FALSE
    /\ sent = <<>>
    /\ log = <<>>
    /\ codes = <<>>
    /\ resp = NoResponse
    /\ result = "running"
    /\ data = NoData
    /\ moved = 0
    /\ broken = FALSE
    /\ srv = <<>>
    /\ conforming = TRUE
    /\ nops = 1
    /\ arg = NoArg
    /\ listen = <<>>

NextPasv == pasv \/ pasv_PASV(PasvReplies) \/ pasv_connect

SpecPasv == InitPasv /\ [][NextPasv]_vars

-----------------------------------------------------------------------------
(* Properties *)

\* a line that ends a multi-line reply opened by `first`: the code of `first`
\* followed by a character other than "-"
Terminates(line, first) ==
    /\ Len(line) >= 4
    /\ StartsWith(line, SliceTo(first, 3))
    /\ line[4] # "-"

\* the stream "211-line one", "211-line two", "211 End"
ThreeLineReply == MultiCoded(SYSTEM).lines

\* C1: a reply whose first line has "-" as its 4th character is read up to and
\* including the first later line that starts with the same code followed by a
\* character other than "-", a line with the code and "-" not ending it; the
\* stream "211-line one", "211-line two", "211 End" gives one reply of code 211
\* after exactly three lines, none left unread
C1_MultilineReadWhole ==
    (pc = "returned" /\ resp.kind = "Ok" /\ FirstLine(resp)[4] = "-") =>
        /\ Len(resp.lines) >= 2
        /\ Terminates(resp.lines[Len(resp.lines)], FirstLine(resp))
        /\ \A i \in 2..(Len(resp.lines) - 1) :
              ~Terminates(resp.lines[i], FirstLine(resp))
        /\ (resp.lines \o stream = ThreeLineReply =>
              resp.code = SYSTEM /\ Len(resp.lines) = 3 /\ stream = <<>>)

\* the operations that are one command and one reply
SingleCommandOps == {"noop", "delete", "status", "logout"}

\* C2: a single-command operation that starts with nothing unread on the
\* control stream and is answered by exactly one whole reply reads that whole
\* reply: it classifies the code the server answered with and leaves no line
\* unread for a later command
C2_OneReplyPerCommand ==
    [][(/\ pc \in SingleCommandOps
        /\ conforming /\ stream = <<>>
        /\ conforming' /\ pc' = "idle")
       => (codes' = srv' /\ stream' = <<>>)]_vars

\* the steps of get in their order
GetSteps == <<"PASV", "read", "open", "RETR", "read", "copy", "read">>

\* C3: get writes PASV, reads its reply, opens the data connection to the
\* decoded address, writes RETR file, reads its reply (150 or 125), copies the
\* data, reads one final reply, in this order, and writes nothing else on the
\* control connection; a step that fails is the last one
C3_GetOrder ==
    op = "get" =>
        /\ Len(log) <= Len(GetSteps)
        /\ \A i \in 1..Len(log) :
              \/ log[i] = GetSteps[i]
              \/ /\ i = Len(log)
                 /\ pc = "idle"
                 /\ result # "Ok"
                 /\ \/ log[i] = "write failed" /\ GetSteps[i] \in {"PASV", "RETR"}
                    \/ log[i] = "connect failed" /\ GetSteps[i] = "open"
        /\ Len(sent) <= 2
        /\ (Len(sent) >= 1 => sent[1] = <<"PASV">> \o CRLF)
        /\ (Len(sent) >= 2 =>
              /\ sent[2] = <<"RETR", " ">> \o arg.text \o CRLF
              /\ Len(log) >= 4)
        /\ (Len(log) >= 3 /\ log[3] = "open" =>
              /\ codes[1] \in {PASSIVE_MODE, ALREADY_OPEN}
              /\ (Len(log) = 3 =>
                    data.address
                      = extract_pasv_address(resp.message, FALSE).address))
        /\ (Len(log) >= 6 => codes[2] \in {FILE_OK, ALREADY_OPEN})
        /\ (result = "Ok" => log = GetSteps)

\* a get that went through every step
C3_Witness ==
    op = "get" /\ pc = "idle" /\ result = "Ok" /\ log = GetSteps /\ moved = MaxBytes

\* the operations that end with a closing reply
TransferOps == {"get", "put", "put_unique", "append", "list", "name_list"}

\* the operation has returned from the read of the reply that follows the
\* data phase
AfterClosingRead ==
    /\ op \in TransferOps
    /\ pc = "idle"
    /\ Len(log) >= 2
    /\ log[Len(log)] = "read"
    /\ log[Len(log) - 1] \in {"copy", "shutdown"}

\* C4: a transfer returns Ok only if the reply read after the data phase has
\* code 226, and ConnectionError for any other code, whatever was copied
C4_ClosingReply ==
    /\ (AfterClosingRead /\ resp.kind = "Ok") =>
          result = IF resp.code = CLOSING_DATA_CONNECTION THEN "Ok"
                   ELSE "ConnectionError"
    /\ (op \in TransferOps /\ result = "Ok") =>
          (AfterClosingRead /\ resp.kind = "Ok"
             /\ resp.code = CLOSING_DATA_CONNECTION)

\* every byte was copied and the closing reply was another code
C4_Witness ==
    /\ AfterClosingRead /\ op = "put" /\ moved = MaxBytes
    /\ resp.kind = "Ok" /\ resp.code = FILE_ACTION_OK
    /\ result = "ConnectionError"

\* C5: when USER is answered 331 login writes PASS next, and returns Ok if
\* PASS is answered 230, LoginError for every other code
C5_LoginPassword ==
    (op = "login" /\ pc = "idle" /\ codes # <<>> /\ codes[1] = NEED_PASSWORD) =>
        /\ Len(log) >= 3
        /\ log[3] \in {"PASS", "write failed"}
        /\ (log[3] = "PASS" =>
              sent = <<<<"USER", " ">> \o arg.text \o CRLF,
                       <<"PASS", " ">> \o arg.more \o CRLF>>)
        /\ (Len(codes) = 2 =>
              result = IF codes[2] = LOGGED_IN THEN "Ok" ELSE "LoginError")
        /\ (result = "Ok" => codes = <<NEED_PASSWORD, LOGGED_IN>>)

\* USER answered 331, PASS answered 530
C5_Witness ==
    /\ op = "login" /\ pc = "idle"
    /\ codes = <<NEED_PASSWORD, NOT_LOGGED_IN>>
    /\ result = "LoginError"

\* C6: when USER is answered 230, login returns Ok and writes no PASS
C6_NoPassAfterLoggedIn ==
    (op = "login" /\ codes # <<>> /\ codes[1] = LOGGED_IN) =>
        /\ \A i \in 1..Len(sent) : sent[i][1] # "PASS"
        /\ (pc = "idle" => result = "Ok")

\* C7: connect gives a client only if the greeting has code 220, returns
\* ConnectionError and no client for every other greeting code, and writes
\* nothing before the greeting is read
C7_Greeting ==
    op = "connect" =>
        /\ sent = <<>>
        /\ (pc = "idle" =>
              resp.kind = "Ok" /\ resp.code = SERVICE_READY /\ result = "Ok")
        /\ (resp.kind = "Ok" /\ resp.code # SERVICE_READY =>
              pc = "noclient" /\ result = "ConnectionError")

\* a greeting of another code
C7_Witness ==
    /\ op = "connect" /\ pc = "noclient"
    /\ resp.kind = "Ok" /\ resp.code = LOGGED_IN
    /\ result = "ConnectionError"

\* the text a.b.c.d:(p1*256+p2) of an announced address
AnnouncedAddress(l) ==
    ToDecimal(l[1]) \o <<".">> \o ToDecimal(l[2]) \o <<".">> \o ToDecimal(l[3])
      \o <<".">> \o ToDecimal(l[4]) \o <<":">> \o ToDecimal(l[5] * 256 + l[6])

\* C8: a reply "227 Entering Passive Mode (a,b,c,d,p1,p2)." read by pasv() is
\* decoded to a.b.c.d:(p1*256+p2), the address the data connection is opened to
C8_PasvRoundTrip ==
    (op = "pasv" /\ pc = "idle" /\ resp.kind = "Ok" /\ listen # <<>>) =>
        /\ result \notin {"ResponseError", "CommandError"}
        /\ Len(log) = 3
        /\ extract_pasv_address(resp.message, TRUE).address = AnnouncedAddress(listen)
        /\ (log[3] = "open" =>
              data = [state |-> "open", address |-> AnnouncedAddress(listen)])

\* the bounds 0 and 255 in one address, with unequal port bytes
C8_Witness ==
    /\ op = "pasv" /\ pc = "idle" /\ result = "Ok"
    /\ listen = <<0, 255, 10, 0, 255, 0>>
    /\ data.state = "open"

\* the number of maximal runs of decimal digits in a text
RECURSIVE DigitRuns(_)
DigitRuns(s) ==
    IF s = <<>> THEN 0
    ELSE (IF Head(s) \in DigitChars
             /\ (Len(s) = 1 \/ s[2] \notin DigitChars) THEN 1 ELSE 0)
         + DigitRuns(Tail(s))

\* pasv() has returned from the decoding of the address
AfterDecoding ==
    /\ op = "pasv" /\ pc = "idle"
    /\ resp.kind = "Ok" /\ AfterPASV(resp.code) = "pasv_connect"

\* C9: the decoding fails with ResponseError exactly when the message holds
\* fewer than six numeric tokens and succeeds whenever it holds six or more;
\* when it fails no data connection is opened
C9_SixTokens ==
    AfterDecoding =>
        /\ (result = "ResponseError" <=> DigitRuns(resp.message) < 6)
        /\ (DigitRuns(resp.message) >= 6 => Len(log) = 3)
        /\ (result = "ResponseError" => data = NoData /\ Len(log) = 2)

\* C10: a first line of fewer than 5 characters, the empty read at EOF
\* included, gives ResponseError: no panic, no reply
C10_ShortLine ==
    (pc = "returned" /\ Len(FirstLine(resp)) < 5) =>
        /\ result = "ResponseError"
        /\ resp.kind = "ResponseError"
        /\ codes = <<>>

\* the first line of the call is a whole line: it ends with its terminator
WholeFirstLine ==
    /\ resp.lines # <<>>
    /\ FirstLine(resp)[Len(FirstLine(resp))] = "\n"

\* the first line of the call holds single-byte characters only
SingleByteFirstLine ==
    \A i \in 1..Len(FirstLine(resp)) : FirstLine(resp)[i] \notin MultiByte

\* C11: when the control stream is at EOF before a whole first line has
\* arrived, parse_response returns ResponseError, however many characters
\* have arrived (stated for lines of single-byte characters, whose length in
\* characters is their length in bytes)
C11_CutLine ==
    (pc = "returned" /\ eof /\ ~WholeFirstLine /\ SingleByteFirstLine)
      => result = "ResponseError"

\* the first n characters of a text
Leading(s, n) == SubSeq(s, 1, IF Len(s) < n THEN Len(s) ELSE n)

\* the three characters are a reply code: three decimal digits, the first of
\* them one of 1, 2, 3, 4, 5
IsReplyCode(s) ==
    /\ Len(s) = 3
    /\ \A i \in 1..3 : s[i] \in DigitChars
    /\ s[1] \in {"1", "2", "3", "4", "5"}

\* C12: every Reply that parse_response returns has a code in 100..599, the
\* three digits its first line starts with, and a first line of 5 or more
\* characters that does not start with such a code gives an error and no Reply
\* (stated for lines of single-byte characters)
C12_CodeRange ==
    (pc = "returned" /\ SingleByteFirstLine) =>
        /\ (resp.kind = "Ok" =>
              /\ resp.code \in 100..599
              /\ IsReplyCode(Leading(FirstLine(resp), 3))
              /\ ToDecimal(resp.code) = Leading(FirstLine(resp), 3))
        /\ (Len(FirstLine(resp)) >= 5
              /\ ~IsReplyCode(Leading(FirstLine(resp), 3)) =>
              result \notin {"Ok", "Panic", "Hang"} /\ codes = <<>>)

\* C13: parse_response returns ResponseError whenever the first three
\* characters of the first line are not all decimal digits (stated for lines
\* of single-byte characters)
C13_NonDigits ==
    (pc = "returned"
       /\ resp.lines # <<>>
       /\ SingleByteFirstLine
       /\ \E i \in 1..3 :
             i > Len(FirstLine(resp)) \/ FirstLine(resp)[i] \notin DigitChars)
      => result = "ResponseError"

\* the codes that open the data phase of a download or a listing
OpeningCodes == {FILE_OK, ALREADY_OPEN}

\* the operation, past PASV and the data connection, has got the code of the
\* reply to its transfer command: the second code it parsed
TransferAnswered(ops) == op \in ops /\ Len(codes) >= 2

\* the operation went on to its data phase: it is at the copy or past it
InDataPhase(copy_step) ==
    \/ pc = copy_step /\ Len(log) = 5
    \/ Len(log) >= 6 /\ log[6] = "copy"

\* the operation returned CommandError on the reply to its transfer command:
\* nothing was copied and no further reply was read
RefusedBeforeData ==
    /\ pc = "idle"
    /\ result = "CommandError"
    /\ Len(log) = 5
    /\ Len(codes) = 2
    /\ moved = 0

\* C14: get goes on to the data phase if and only if RETR is answered 150 or
\* 125; for every other code it returns CommandError and no byte has been
\* moved between the data connection and the sink
C14_RetrCodes ==
    /\ TransferAnswered({"get"}) =>
          IF codes[2] \in OpeningCodes THEN InDataPhase("get_copy")
          ELSE RefusedBeforeData
    /\ (op = "get" /\ InDataPhase("get_copy")) =>
          (TransferAnswered({"get"}) /\ codes[2] \in OpeningCodes)

\* RETR answered 200
C14_Witness ==
    /\ TransferAnswered({"get"}) /\ codes[2] = COMMAND_OK
    /\ RefusedBeforeData
    /\ log[4] = "RETR"

\* the store-style operations
StoreOps == {"put", "put_unique", "append"}

\* C15: put, put_unique and append go on to the data phase if and only if the
\* store command is answered 150; for every other code, 125 included, they
\* return CommandError and no byte has been moved between the source and the
\* data connection
C15_StoreCodes ==
    /\ TransferAnswered(StoreOps) =>
          IF codes[2] = FILE_OK THEN InDataPhase("store_cmd_copy")
          ELSE RefusedBeforeData
    /\ (op \in StoreOps /\ InDataPhase("store_cmd_copy")) =>
          (TransferAnswered(StoreOps) /\ codes[2] = FILE_OK)

\* the store command answered 125
C15_Witness ==
    /\ TransferAnswered({"append"}) /\ codes[2] = ALREADY_OPEN
    /\ RefusedBeforeData
    /\ log[4] \in {"STOR", "STOU"}

\* the listing operations
ListOps == {"list", "name_list"}

\* C16: list and name_list go on to the data phase if and only if LIST/NLST is
\* answered 150 or 125; for every other code they return CommandError without
\* reading from the data connection and without reading a further reply
C16_ListCodes ==
    /\ TransferAnswered(ListOps) =>
          IF codes[2] \in OpeningCodes THEN InDataPhase("list_cmd_lines")
          ELSE RefusedBeforeData
    /\ (op \in ListOps /\ InDataPhase("list_cmd_lines")) =>
          (TransferAnswered(ListOps) /\ codes[2] \in OpeningCodes)

\* the verb the spec gives each store-style operation
StoreVerb(name) ==
    CASE name = "append" -> "APPE"
      [] name = "put" -> "STOR"
      [] name = "put_unique" -> "STOU"

\* C17: append writes APPE with the file argument as its transfer command, as
\* put writes STOR and put_unique STOU
C17_OwnVerb ==
    (op \in StoreOps /\ Len(sent) >= 2) =>
        /\ sent[2][1] = StoreVerb(op)
        /\ (op = "append" => sent[2] = <<"APPE", " ">> \o arg.text \o CRLF)

\* the steps of a store-style operation after its transfer command
StoreTail == <<"copy", "shutdown", "read">>

\* C18: in put, put_unique and append the data connection is shut down in both
\* directions after the copy of the source has ended and before the closing
\* reply is read
C18_ShutdownBeforeClose ==
    op \in StoreOps =>
        /\ (pc = "store_cmd_shutdown" =>
              data.state = "open" /\ Len(log) = 6 /\ log[6] = "copy")
        /\ (pc = "store_cmd_close" =>
              /\ data.state = "shut"
              /\ Len(log) = 7 /\ log[6] = "copy" /\ log[7] = "shutdown")
        /\ (Len(log) >= 8 =>
              /\ Len(log) = 8
              /\ SubSeq(log, 6, 8) = StoreTail
              /\ data.state = "closed")
        /\ (Len(codes) >= 3 => Len(log) = 8)

\* a store that copied every byte, shut the connection down and read the
\* closing reply
C18_Witness ==
    /\ op = "put" /\ pc = "idle" /\ result = "Ok"
    /\ Len(log) = 8 /\ SubSeq(log, 6, 8) = StoreTail
    /\ moved = MaxBytes

\* C19: rename writes RNTO only after RNFR was answered 350; for any other
\* answer to RNFR it returns CommandError and RNTO is never written; it returns
\* Ok exactly when RNFR is answered 350 and RNTO 250
C19_RenameSequence ==
    op = "rename" =>
        /\ Len(sent) <= 2
        /\ (Len(sent) >= 1 => sent[1] = <<"RNFR", " ">> \o arg.text \o CRLF)
        /\ (Len(sent) = 2 =>
              /\ sent[2] = <<"RNTO", " ">> \o arg.more \o CRLF
              /\ codes # <<>> /\ codes[1] = FILE_ACTION_PENDING)
        /\ (codes # <<>> /\ codes[1] # FILE_ACTION_PENDING =>
              /\ pc = "idle" /\ result = "CommandError"
              /\ Len(sent) = 1 /\ log = <<"RNFR", "read">>)
        /\ (result = "Ok" <=>
              (pc = "idle" /\ codes = <<FILE_ACTION_PENDING, FILE_ACTION_OK>>))

\* RNFR answered 250: no RNTO
C19_Witness ==
    /\ op = "rename" /\ pc = "idle"
    /\ codes = <<FILE_ACTION_OK>>
    /\ result = "CommandError"
    /\ Len(sent) = 1

\* C20: a noop called with the control stream in step with the server and
\* answered "200 ok" writes one NOOP line, reads one reply and returns Ok; it
\* opens no data connection and leaves the control stream in step with the
\* server, so N such calls write N lines, read N replies and return Ok N times
C20_NoopFrame ==
    [][(/\ pc = "noop"
        /\ conforming /\ stream = <<>>
        /\ conforming' /\ srv' = <<COMMAND_OK>>)
       => (/\ pc' = "idle"
           /\ result' = "Ok"
           /\ sent' = <<<<"NOOP">> \o CRLF>>
           /\ log' = <<"NOOP", "read">>
           /\ codes' = <<COMMAND_OK>>
           /\ stream' = <<>>
           /\ eof' = eof
           /\ data' = NoData /\ data = NoData)]_vars

\* the last of MaxOps calls is a noop answered 200
C20_Witness ==
    /\ op = "noop" /\ pc = "idle" /\ nops = MaxOps
    /\ conforming /\ stream = <<>>
    /\ srv = <<COMMAND_OK>>
    /\ result = "Ok"
    /\ sent = <<<<"NOOP">> \o CRLF>>

\* C21: logout writes exactly one QUIT and returns Ok exactly when the reply
\* code is 221; for every other reply code it returns ConnectionError
C21_LogoutCodes ==
    (op = "logout" /\ pc = "idle" /\ resp.kind = "Ok") =>
        /\ sent = <<<<"QUIT">> \o CRLF>>
        /\ result = IF resp.code = SERVICE_CLOSING THEN "Ok"
                    ELSE "ConnectionError"

\* C22: every failure to write a command line is returned as ConnectionError,
\* whatever the kind of the I/O error, and no reply is read after it
C22_WriteFailure ==
    (pc = "idle" /\ log # <<>> /\ log[Len(log)] = "write failed") =>
        /\ result = "ConnectionError"
        /\ resp.lines = <<>>

\* C23: every I/O error parse_response meets on the control stream, on the
\* first line or on a continuation line, is returned as ConnectionError, and
\* ResponseError is returned only for malformed reply text
C23_ReadFailure ==
    (pc \in {"idle", "noclient"} /\ log # <<>> /\ log[Len(log)] = "read") =>
        /\ (resp.ioerr => result = "ConnectionError")
        /\ (resp.kind = "ResponseError" => ~resp.ioerr)

\* C24: a transfer operation one of whose commands, PASV included, is answered
\* 503 bad command sequence returns CommandError
C24_BadSequence ==
    (/\ op \in TransferOps /\ pc = "idle"
     /\ Len(log) \in {2, 5} /\ log[Len(log)] = "read"
     /\ resp.kind = "Ok" /\ resp.code = BAD_COMMAND_SEQUENCE)
      => result = "CommandError"

\* the first line of the call is three decimal digits, a space, no message,
\* and the terminator LF or CRLF
EmptyMessageLine ==
    /\ resp.lines # <<>>
    /\ \E t \in {<<"\n">>, CRLF} :
          /\ Len(FirstLine(resp)) = 4 + Len(t)
          /\ \A i \in 1..3 : FirstLine(resp)[i] \in DigitChars
          /\ FirstLine(resp)[4] = " "
          /\ SubSeq(FirstLine(resp), 5, Len(FirstLine(resp))) = t

\* C25: a reply line that is a 3-digit code, one separator and an empty
\* message, followed by the line terminator, is accepted and gives a Reply
\* with that code
C25_EmptyMessage ==
    (pc = "returned" /\ EmptyMessageLine) =>
        /\ result = "Ok"
        /\ resp.kind = "Ok"
        /\ resp.code = DigitsValue(Leading(FirstLine(resp), 3))
        /\ codes = <<resp.code>>
        /\ resp.lines = <<FirstLine(resp)>>
        /\ resp.message = SubSeq(FirstLine(resp), 4, Len(FirstLine(resp)))
        /\ stream = <<>>

\* "220 " and LF: five bytes
C25_Witness ==
    /\ pc = "returned"
    /\ FirstLine(resp) = <<"2", "2", "0", " ", "\n">>
    /\ result = "Ok" /\ resp.code = SERVICE_READY

\* the maximal runs of decimal digits of a text, in order of appearance; cur is
\* the run being read
RECURSIVE Runs(_, _)
Runs(s, cur) ==
    LET done == IF cur = <<>> THEN <<>> ELSE <<cur>>
    IN  IF s = <<>> THEN done
        ELSE IF Head(s) \in DigitChars THEN Runs(Tail(s), Append(cur, Head(s)))
        ELSE done \o Runs(Tail(s), <<>>)

\* the address the first six runs spell: r1.r2.r3.r4:(r5*256+r6)
RunsAddress(r) ==
    AnnouncedAddress([i \in 1..6 |-> DigitsValue(r[i])])

\* C26: the numeric tokens are the maximal runs of decimal digits of the
\* message, in order of appearance, whatever text lies around or between them,
\* and the address is built from the first six of them
C26_DigitRunTokens ==
    (AfterDecoding /\ result = "Ok") =>
        /\ Len(Runs(resp.message, <<>>)) >= 6
        /\ data.address = RunsAddress(Runs(resp.message, <<>>))

\* pasv() is past the decoding of the address, however that ended
DecodingDone ==
    /\ op = "pasv" /\ pc \in {"idle", "panicked"}
    /\ resp.kind = "Ok" /\ AfterPASV(resp.code) = "pasv_connect"

\* C27: for every message that is decoded successfully the port is
\* token[4]*256 + token[5] and a 16-bit value; computing it neither overflows
\* nor panics
C27_PortRange ==
    DecodingDone =>
        /\ result # "Panic"
        /\ \A overflow_checks \in BOOLEAN :
              LET a == extract_pasv_address(resp.message, overflow_checks)
              IN  /\ a.kind # "Panic"
                  /\ (a.kind = "Ok" =>
                        /\ ~FullPort(a.numbers).overflow
                        /\ FullPort(a.numbers).value[1] = 0)

\* the number of entries of a log that are `entry`
RECURSIVE Count(_, _)
Count(l, entry) ==
    IF l = <<>> THEN 0
    ELSE (IF Head(l) = entry THEN 1 ELSE 0) + Count(Tail(l), entry)

\* C28: a transfer operation opens one data connection at most, exactly one
\* when it completes, and has closed it when it returns, on success and on
\* every error path; a completed transfer has read exactly two replies after
\* the reply to PASV; no data connection of a transfer operation is open
\* between operations
C28_OneDataConnection ==
    op \in TransferOps =>
        /\ Count(log, "open") <= 1
        /\ (data.state # "none" <=> Count(log, "open") = 1)
        /\ (pc \in {"idle", "ready"} => data.state \in {"none", "closed"})
        /\ (data.state \in {"open", "shut"} =>
              pc \notin {"idle", "ready", "new", "noclient"})
        /\ (result = "Ok" =>
              /\ Count(log, "open") = 1 /\ data.state = "closed"
              /\ Len(codes) = 3 /\ Count(log, "read") = 3
              /\ Len(sent) = 2)

\* a listing that completed: its data connection is closed
C28_Witness ==
    /\ op = "list" /\ pc = "idle" /\ result = "Ok"
    /\ data.state = "closed" /\ Len(codes) = 3

\* C29: a transfer operation that has received its opening reply reads the
\* closing reply before it returns, on success and on every error path
C29_ClosingReplyRead ==
    (op \in TransferOps /\ pc = "idle" /\ Len(log) >= 6) =>
        log[Len(log)] = "read"

\* C30: when an I/O error strikes the data connection after bytes have crossed
\* it, the transfer operation returns an error: none returns Ok with partial
\* data, whatever closing reply the server then sends
C30_PartialTransfer ==
    (op \in TransferOps /\ pc = "idle" /\ broken /\ moved >= 1) => result # "Ok"

\* the operation has returned an error to its caller
ReturnedError ==
    /\ pc \in {"idle", "panicked", "hung"}
    /\ result \notin {"Ok", "running", "none"}

\* C31: within one operation call no command line is written twice, and no
\* verb either; at most one write fails, and it is the operation's last step;
\* an operation that has ended with an error after an unexpected reply code,
\* a malformed reply or an I/O error has written each of its commands once
\* and read one reply at most for each
C31_NoResend ==
    op \in Methods =>
        /\ \A i, j \in 1..Len(sent) :
              i # j => sent[i] # sent[j] /\ sent[i][1] # sent[j][1]
        /\ Len(sent) <= 2
        /\ Count(log, "write failed") <= 1
        /\ (Count(log, "write failed") = 1 =>
              log[Len(log)] = "write failed" /\ ReturnedError)
        /\ \A i \in 1..Len(sent) : Count(log, sent[i][1]) = 1

\* login has returned LoginError for an unexpected reply to USER, which it
\* wrote once
C31_Witness ==
    /\ op = "login" /\ ReturnedError /\ result = "LoginError"
    /\ codes = <<NOT_LOGGED_IN>>
    /\ Len(sent) = 1 /\ sent[1][1] = "USER"

\* C32: parse_response always returns: when the control stream reaches EOF
\* inside a multi-line reply, before a terminator line has arrived, the call
\* stops reading and returns an error, it does not read forever (stated for
\* first lines that start with a reply code and "-")
C32_ReturnsAtEof ==
    (/\ pc = "returned" /\ eof /\ stream = <<>>
     /\ IsReplyCode(Leading(FirstLine(resp), 3))
     /\ Len(FirstLine(resp)) >= 5 /\ FirstLine(resp)[4] = "-"
     /\ \A i \in 2..Len(resp.lines) : ~EndsReply(resp.lines[i], FirstLine(resp)))
      => result \in {"ResponseError", "ConnectionError", "FileError"}

\* the errors an io::Error of connect becomes
ConnectErrors == {FromIoError(k) : k \in IoErrorKinds \cup {"InvalidInput"}}

\* C33: in every transfer operation, as long as no data connection has been
\* opened only PASV has been written; when the PASV step fails (a reply code
\* other than 227 and 125, an address that cannot be decoded, a data socket
\* that cannot be opened, or no reply) the operation returns that error and
\* has written PASV alone
C33_PasvFailure ==
    (op \in TransferOps /\ Count(log, "open") = 0) =>
        /\ \A i \in 1..Len(sent) : sent[i][1] = "PASV"
        /\ Len(sent) <= 1
        /\ data = NoData
        /\ (pc = "idle" =>
              /\ result # "Ok"
              /\ (resp.kind # "Ok" => result = resp.kind)
              /\ (resp.kind = "Ok" /\ resp.code \notin {PASSIVE_MODE, ALREADY_OPEN}
                    => result = "ResponseError" /\ Len(log) = 2)
              /\ (resp.kind = "Ok" /\ DigitRuns(resp.message) < 6
                    => result = "ResponseError" /\ Len(log) = 2)
              /\ (log[Len(log)] = "connect failed" =>
                    /\ result \in ConnectErrors
                    /\ DigitRuns(resp.message) >= 6))

\* put has returned the error of a refused PASV
C33_Witness ==
    /\ op = "put" /\ pc = "idle" /\ result = "ResponseError"
    /\ codes = <<NOT_LOGGED_IN>>
    /\ Len(sent) = 1 /\ sent[1][1] = "PASV"
    /\ data = NoData

\* login has the reply to USER, and its code is neither 331 nor 230
UserRefused ==
    /\ op = "login"
    /\ Len(codes) >= 1
    /\ codes[1] \notin {NEED_PASSWORD, LOGGED_IN}

\* C34: when the reply to USER has a code other than 331 and 230, login
\* returns LoginError and PASS, which carries the password, is never written
C34_NoPassAfterRefusal ==
    UserRefused =>
        /\ pc = "idle"
        /\ result = "LoginError"
        /\ Len(sent) = 1 /\ sent[1][1] = "USER"
        /\ Count(log, "PASS") = 0
        /\ codes = <<resp.code>>

\* login has returned for a USER answered "command okay"
C34_Witness ==
    /\ UserRefused /\ codes = <<COMMAND_OK>>
    /\ pc = "idle" /\ result = "LoginError"
    /\ sent = <<WireLine(<<"USER", " ">> \o arg.text)>>

\* the verbs of the commands the client writes
Verbs == {"USER", "PASS", "NOOP", "DELE", "STAT", "QUIT", "RNFR", "RNTO",
          "PASV", "RETR", "STOR", "STOU", "APPE", "LIST", "NLST"}

\* what one write put on the control socket is one command line: VERB, or
\* VERB SP argument with an argument of one character or more that holds
\* neither CR nor LF, followed by one CRLF
IsCommandLine(written) ==
    /\ Len(written) >= 3
    /\ SubSeq(written, Len(written) - 1, Len(written)) = CRLF
    /\ written[1] \in Verbs
    /\ LET body == SubSeq(written, 1, Len(written) - 2)
       IN  \/ Len(body) = 1
           \/ /\ Len(body) >= 3
              /\ body[2] = " "
              /\ \A i \in 3..Len(body) : body[i] \notin {"\r", "\n"}

\* C35: every write to the control socket, by every operation and for every
\* argument, the empty string and strings that hold CR or LF included, is
\* exactly one command line VERB or VERB SP argument followed by one CRLF
C35_OneCommandLine ==
    \A i \in 1..Len(sent) : IsCommandLine(sent[i])

=============================================================================
